---- MODULE Spec2Model ----
(***************************************************************************)
(* Model of cashier_system.py: the CashierCart (items keyed by normalized  *)
(* name, discount and tax percentages, derived amounts), the receipt       *)
(* export and the run_cashier command loop.                                *)
(*                                                                         *)
(* Python floats are modelled as exact decimals n * 10^-e together with    *)
(* the IEEE special values +inf, -inf and nan; binary rounding error and   *)
(* the sign of zero are not modelled.  Strings that the program trims and  *)
(* lowercases are sequences of one-character strings.                      *)
(***************************************************************************)
EXTENDS Integers, Sequences, FiniteSets, TLC

\* ------------------------------------------------------------------ bounds
\* Largest quantity (typed, or reached by merging) the model explores.
MaxQty == 3

\* ------------------------------------------------------------- float values
NaN == [k |-> "nan", n |-> 0, e |-> 0]

PInf == [k |-> "inf", n |-> 1, e |-> 0]

NInf == [k |-> "inf", n |-> -1, e |-> 0]

RECURSIVE Pow10(_)
Pow10(k) == IF k <= 0 THEN 1 ELSE 10 * Pow10(k - 1)

\* The canonical form of the decimal n * 10^-e (no trailing zero digits).
RECURSIVE Fin(_, _)
Fin(n, e) ==
    IF e > 0 /\ n % 10 = 0 THEN Fin(n \div 10, e - 1)
    ELSE [k |-> "fin", n |-> n, e |-> e]

Zero == Fin(0, 0)

Sign(n) == IF n > 0 THEN 1 ELSE IF n < 0 THEN -1 ELSE 0

MaxOf(a, b) == IF a >= b THEN a ELSE b

\* float(int): the conversion Python applies to an int operand.
IntToFloat(i) == Fin(i, 0)

\* x + y on floats.
AddF(x, y) ==
    IF x.k = "nan" \/ y.k = "nan" THEN NaN
    ELSE IF x.k = "inf" /\ y.k = "inf" THEN (IF x.n = y.n THEN x ELSE NaN)
    ELSE IF x.k = "inf" THEN x
    ELSE IF y.k = "inf" THEN y
    ELSE LET e == MaxOf(x.e, y.e)
         IN  Fin(x.n * Pow10(e - x.e) + y.n * Pow10(e - y.e), e)

NegF(x) == IF x.k = "nan" THEN NaN ELSE [x EXCEPT !.n = -x.n]

\* x - y on floats.
SubF(x, y) == AddF(x, NegF(y))

\* x * y on floats (inf * 0 is nan).
MulF(x, y) ==
    IF x.k = "nan" \/ y.k = "nan" THEN NaN
    ELSE IF x.k = "inf" \/ y.k = "inf" THEN
        (IF Sign(x.n) * Sign(y.n) = 0 THEN NaN
         ELSE IF Sign(x.n) * Sign(y.n) > 0 THEN PInf ELSE NInf)
    ELSE Fin(x.n * y.n, x.e + y.e)

\* x / 100 on floats.
Div100(x) == IF x.k = "fin" THEN Fin(x.n, x.e + 2) ELSE x

\* x < 0 on floats (every comparison with nan is False).
LtZero(x) == x.k # "nan" /\ x.n < 0

\* x >= 0 on floats.
GeZero(x) == x.k # "nan" /\ x.n >= 0

\* f"{x:.<d>f}": the text of x with exactly d decimals, held as the integer
\* number of 10^-d units it shows.  An exact decimal half goes to the even
\* neighbour; in the program the binary error of the float decides such a tie.
FormatFixed(x, d) ==
    IF x.k = "nan" THEN [txt |-> "nan", n |-> 0, d |-> d]
    ELSE IF x.k = "inf" THEN [txt |-> IF x.n > 0 THEN "inf" ELSE "-inf", n |-> 0, d |-> d]
    ELSE IF x.e <= d THEN [txt |-> "dec", n |-> x.n * Pow10(d - x.e), d |-> d]
    ELSE LET m == Pow10(x.e - d)
             q == x.n \div m
             r == x.n % m
         IN  [txt |-> "dec",
              n |-> IF 2 * r < m THEN q
                    ELSE IF 2 * r > m THEN q + 1
                    ELSE IF q % 2 = 0 THEN q ELSE q + 1,
              d |-> d]

\* ------------------------------------------------------------------ strings
IsSpace(ch) == ch = " "

\* str.lower() on one character.
LowerChar(ch) ==
    CASE ch = "C" -> "c"
      [] ch = "T" -> "t"
      [] OTHER -> ch

RECURSIVE LStrip(_)
LStrip(s) == IF s # <<>> /\ IsSpace(Head(s)) THEN LStrip(Tail(s)) ELSE s

RECURSIVE RStrip(_)
RStrip(s) ==
    IF s # <<>> /\ IsSpace(s[Len(s)]) THEN RStrip(SubSeq(s, 1, Len(s) - 1)) ELSE s

\* str.strip()
Strip(s) == RStrip(LStrip(s))

\* str.lower()
Lower(s) == [i \in 1..Len(s) |-> LowerChar(s[i])]

\* ------------------------------------------------------------ program state
VARIABLES
    pc,                \* position of run_cashier: the input() it waits at
    locals,            \* bound local variables of run_cashier (choice, name, price, quantity)
    items,             \* cart.items in dict (insertion) order: [key, name, price, quantity]
    discount_percent,  \* cart.discount_percent
    tax_percent,       \* cart.tax_percent
    out,               \* status line printed by the current or last command
    receipt            \* rows of the receipt file written by the last command, if any

vars == <<pc, locals, items, discount_percent, tax_percent, out, receipt>>

\* The cart object as one value.
cart == [items |-> items, discount_percent |-> discount_percent,
         tax_percent |-> tax_percent]

\* ---------------------------------------------------------------- CartItem
CartItem(k, nm, p, q) == [key |-> k, name |-> nm, price |-> p, quantity |-> q]

\* CartItem.total
total(item) == MulF(item.price, IntToFloat(item.quantity))

\* -------------------------------------------------------------- CashierCart
\* key in self.items
HasKey(its, k) == \E i \in 1..Len(its) : its[i].key = k

\* position of key k in the dict order (k is present)
IndexOf(its, k) == CHOOSE i \in 1..Len(its) : its[i].key = k

\* self.items.pop(key, None): the dict without key k, order of the rest kept
Pop(its, k) ==
    IF HasKey(its, k)
    THEN LET i == IndexOf(its, k)
         IN  SubSeq(its, 1, i - 1) \o SubSeq(its, i + 1, Len(its))
    ELSE its

\* name.strip().lower()
NormKey(nm) == Lower(Strip(nm))

\* add_item that keeps the stored price when it merges.
add_item_keeps_price(its, nm, p, q) ==
    LET key == NormKey(nm)
    IN  IF HasKey(its, key)
        THEN LET i == IndexOf(its, key)
             IN  [its EXCEPT ![i].quantity = its[i].quantity + q]
        ELSE Append(its, CartItem(key, Strip(nm), p, q))

\* add_item that keys the dict by the trimmed name without lowercasing it.
add_item_no_lower(its, nm, p, q) ==
    LET key == Strip(nm)
    IN  IF HasKey(its, key)
        THEN LET i == IndexOf(its, key)
             IN  [its EXCEPT ![i].quantity = its[i].quantity + q, ![i].price = p]
        ELSE Append(its, CartItem(key, Strip(nm), p, q))

\* add_item that also overwrites the display name when it merges.
add_item_renames(its, nm, p, q) ==
    LET key == NormKey(nm)
    IN  IF HasKey(its, key)
        THEN LET i == IndexOf(its, key)
             IN  [its EXCEPT ![i].quantity = its[i].quantity + q, ![i].price = p,
                             ![i].name = Strip(nm)]
        ELSE Append(its, CartItem(key, Strip(nm), p, q))

add_item(its, nm, p, q) ==
    LET key == NormKey(nm)
    IN  IF HasKey(its, key)
        THEN LET i == IndexOf(its, key)
             IN  [its EXCEPT ![i].quantity = its[i].quantity + q, ![i].price = p]
        ELSE Append(its, CartItem(key, Strip(nm), p, q))

\* remove_item that looks the trimmed name up without lowercasing it.
remove_item_no_lower(its, nm) ==
    LET key == Strip(nm)
    IN  [items |-> Pop(its, key), ret |-> HasKey(its, key)]

\* remove_item that pops the last entry (popitem) when the key is present.
remove_item_pops_last(its, nm) ==
    LET key == NormKey(nm)
    IN  [items |-> IF HasKey(its, key) THEN SubSeq(its, 1, Len(its) - 1) ELSE its,
         ret |-> HasKey(its, key)]

\* remove_item that keeps the entry and zeroes its quantity.
remove_item_soft(its, nm) ==
    LET key == NormKey(nm)
    IN  [items |-> IF HasKey(its, key)
                   THEN [its EXCEPT ![IndexOf(its, key)].quantity = 0]
                   ELSE its,
         ret |-> HasKey(its, key)]

remove_item(its, nm) ==
    LET key == NormKey(nm)
    IN  [items |-> Pop(its, key), ret |-> HasKey(its, key)]

\* update_quantity that deletes only on a negative quantity and stores 0.
update_quantity_stores_zero(its, nm, q) ==
    LET key == NormKey(nm)
    IN  IF ~HasKey(its, key) THEN [items |-> its, ret |-> FALSE]
        ELSE IF q < 0 THEN [items |-> Pop(its, key), ret |-> TRUE]
        ELSE [items |-> [its EXCEPT ![IndexOf(its, key)].quantity = q], ret |-> TRUE]

update_quantity(its, nm, q) ==
    LET key == NormKey(nm)
    IN  IF ~HasKey(its, key) THEN [items |-> its, ret |-> FALSE]
        ELSE IF q <= 0 THEN [items |-> Pop(its, key), ret |-> TRUE]
        ELSE [items |-> [its EXCEPT ![IndexOf(its, key)].quantity = q], ret |-> TRUE]

\* clear that forgets to reset the tax percentage.
clear_keeps_tax(c) ==
    [items |-> <<>>, discount_percent |-> Zero, tax_percent |-> c.tax_percent]

clear(c) == [items |-> <<>>, discount_percent |-> Zero, tax_percent |-> Zero]

\* sum(...) over the items in dict order, starting from the int 0
RECURSIVE SumTotals(_, _)
SumTotals(its, acc) ==
    IF its = <<>> THEN acc ELSE SumTotals(Tail(its), AddF(acc, total(Head(its))))

subtotal(c) == SumTotals(c.items, IntToFloat(0))

discount_amount(c) == MulF(subtotal(c), Div100(c.discount_percent))

tax_amount(c) == MulF(SubF(subtotal(c), discount_amount(c)), Div100(c.tax_percent))

total_due(c) == AddF(SubF(subtotal(c), discount_amount(c)), tax_amount(c))

\* ------------------------------------------------------------ save_receipt
HeaderRow == <<"Item", "Qty", "Price", "Total">>

BlankRow == <<>>

ItemRow(item) ==
    <<item.name, item.quantity, FormatFixed(item.price, 2), FormatFixed(total(item), 2)>>

SummaryRows(c) ==
    << <<"Subtotal", FormatFixed(subtotal(c), 2)>>,
       <<"Discount %", FormatFixed(c.discount_percent, 1)>>,
       <<"Discount Amount", FormatFixed(discount_amount(c), 2)>>,
       <<"Tax %", FormatFixed(c.tax_percent, 1)>>,
       <<"Tax Amount", FormatFixed(tax_amount(c), 2)>>,
       <<"Total Due", FormatFixed(total_due(c), 2)>> >>

\* save_receipt that writes no blank row between the items and the summary.
save_receipt_no_blank(c) ==
    <<HeaderRow>> \o [i \in 1..Len(c.items) |-> ItemRow(c.items[i])] \o SummaryRows(c)

\* The rows written to the receipt file, in writing order.
save_receipt(c) ==
    <<HeaderRow>> \o [i \in 1..Len(c.items) |-> ItemRow(c.items[i])]
                  \o <<BlankRow>> \o SummaryRows(c)

\* No file was written.
NoFile == <<>>

\* ----------------------------------------------------------- typed input
\* A line typed at a numeric prompt, by what float() and int() make of it:
\* "dec" is the decimal literal n * 10^-e written with e decimals, "nan" and
\* "inf" are the words float() accepts, "junk" is any other text.
Typed(cls, n, e) == [cls |-> cls, n |-> n, e |-> e]

\* float(raw): ok is FALSE where Python raises ValueError.
ParseFloat(raw) ==
    CASE raw.cls = "dec" -> [ok |-> TRUE, value |-> Fin(raw.n, raw.e)]
      [] raw.cls = "nan" -> [ok |-> TRUE, value |-> NaN]
      [] raw.cls = "inf" -> [ok |-> TRUE, value |-> IF raw.n >= 0 THEN PInf ELSE NInf]
      [] OTHER -> [ok |-> FALSE, value |-> NaN]

\* int(raw): only a literal without decimals parses.
ParseInt(raw) ==
    IF raw.cls = "dec" /\ raw.e = 0 THEN [ok |-> TRUE, value |-> raw.n]
    ELSE [ok |-> FALSE, value |-> 0]

NoMsg == ""

\* One round of prompt_float's loop on the typed line raw: done with the
\* value returned, or a warning and another round.
prompt_float(raw) ==
    LET r == ParseFloat(raw)
    IN  IF ~r.ok THEN [done |-> FALSE, value |-> NaN, msg |-> "Enter a valid number."]
        ELSE IF LtZero(r.value)
             THEN [done |-> FALSE, value |-> NaN, msg |-> "Must be non-negative."]
        ELSE [done |-> TRUE, value |-> r.value, msg |-> NoMsg]

\* One round of prompt_int's loop on the typed line raw.
prompt_int(raw) ==
    LET r == ParseInt(raw)
    IN  IF ~r.ok THEN [done |-> FALSE, value |-> 0, msg |-> "Enter an integer."]
        ELSE [done |-> TRUE, value |-> r.value, msg |-> NoMsg]

\* Lines typed at the menu prompt.
ChoiceInputs ==
    { <<"0">>, <<"1">>, <<"2">>, <<"3">>, <<"4">>, <<"5">>, <<"6">>, <<"7">>,
      <<"8">>, <<" ", "8", " ">>, <<"9">>, <<>> }

\* Lines typed at the item-name prompts.
NameInputs == { <<>>, <<" ">>, <<"C">>, <<" ", "c", " ">>, <<"t">> }

\* Lines typed at the price prompt: text, -1, 3.50, 4.00, nan.
PriceInputs ==
    { Typed("junk", 0, 0), Typed("dec", -1, 0), Typed("dec", 350, 2),
      Typed("dec", 400, 2), Typed("nan", 0, 0) }

\* Lines typed at the discount and tax prompts: text, -5, 10, nan.
PercentInputs ==
    { Typed("junk", 0, 0), Typed("dec", -5, 0), Typed("dec", 10, 0),
      Typed("nan", 0, 0) }

\* Lines typed at the quantity prompts: text, 1.5, and the integers -1..MaxQty.
QtyInputs ==
    { Typed("junk", 0, 0), Typed("dec", 15, 1) }
        \cup { Typed("dec", q, 0) : q \in -1..MaxQty }

\* The model explores quantities up to MaxQty.
WithinBounds(its) == \A i \in 1..Len(its) : its[i].quantity <= MaxQty

\* ------------------------------------------------------------- run_cashier
Init ==
    /\ pc = "menu"
    /\ locals = [v \in {} |-> 0]
    /\ items = <<>>
    /\ discount_percent = Zero
    /\ tax_percent = Zero
    /\ out = NoMsg
    /\ receipt = NoFile

\* choice = input(...).strip() reads c; the locals of the previous command
\* are dead (every branch assigns before it reads) and are dropped.
ReadChoice(c) ==
    /\ pc = "menu"
    /\ \E raw \in ChoiceInputs : Strip(raw) = c
    /\ locals' = [choice |-> c]
    /\ receipt' = NoFile

Bind(var, val) == [v \in DOMAIN locals \cup {var} |-> IF v = var THEN val ELSE locals[v]]

\* choice "1": print_cart
ViewCart ==
    /\ ReadChoice(<<"1">>)
    /\ out' = IF items = <<>> THEN "Cart is empty." ELSE "Total Due"
    /\ UNCHANGED <<pc, items, discount_percent, tax_percent>>

\* choice "2"
ChooseAdd ==
    /\ ReadChoice(<<"2">>)
    /\ pc' = "add_name"
    /\ out' = NoMsg
    /\ UNCHANGED <<items, discount_percent, tax_percent>>

AddName ==
    /\ pc = "add_name"
    /\ \E raw \in NameInputs :
        LET nm == Strip(raw)
        IN  /\ locals' = Bind("name", nm)
            /\ IF nm = <<>>
               THEN pc' = "menu" /\ out' = "Item name is required."
               ELSE pc' = "add_price" /\ out' = NoMsg
    /\ UNCHANGED <<items, discount_percent, tax_percent, receipt>>

AddPrice ==
    /\ pc = "add_price"
    /\ \E raw \in PriceInputs :
        LET r == prompt_float(raw)
        IN  /\ out' = r.msg
            /\ IF r.done
               THEN pc' = "add_qty" /\ locals' = Bind("price", r.value)
               ELSE UNCHANGED <<pc, locals>>
    /\ UNCHANGED <<items, discount_percent, tax_percent, receipt>>

\* The quantity step of choice "2" without the quantity <= 0 check.
AddQuantity_no_check ==
    /\ pc = "add_qty"
    /\ \E raw \in QtyInputs :
        LET r == prompt_int(raw)
        IN  IF ~r.done
            THEN out' = r.msg /\ UNCHANGED <<pc, locals, items>>
            ELSE /\ locals' = Bind("quantity", r.value)
                 /\ pc' = "menu"
                 /\ items' = add_item(items, locals.name, locals.price, r.value)
                 /\ WithinBounds(items')
                 /\ out' = "Item added."
    /\ UNCHANGED <<discount_percent, tax_percent, receipt>>

AddQuantity ==
    /\ pc = "add_qty"
    /\ \E raw \in QtyInputs :
        LET r == prompt_int(raw)
        IN  IF ~r.done
            THEN out' = r.msg /\ UNCHANGED <<pc, locals, items>>
            ELSE /\ locals' = Bind("quantity", r.value)
                 /\ pc' = "menu"
                 /\ IF r.value <= 0
                    THEN out' = "Quantity must be > 0." /\ UNCHANGED items
                    ELSE /\ items' = add_item(items, locals.name, locals.price, r.value)
                         /\ WithinBounds(items')
                         /\ out' = "Item added."
    /\ UNCHANGED <<discount_percent, tax_percent, receipt>>

\* choice "3"
ChooseUpdate ==
    /\ ReadChoice(<<"3">>)
    /\ pc' = "upd_name"
    /\ out' = NoMsg
    /\ UNCHANGED <<items, discount_percent, tax_percent>>

UpdateName ==
    /\ pc = "upd_name"
    /\ \E raw \in NameInputs : locals' = Bind("name", Strip(raw))
    /\ pc' = "upd_qty"
    /\ out' = NoMsg
    /\ UNCHANGED <<items, discount_percent, tax_percent, receipt>>

UpdateQuantity ==
    /\ pc = "upd_qty"
    /\ \E raw \in QtyInputs :
        LET r == prompt_int(raw)
        IN  IF ~r.done
            THEN out' = r.msg /\ UNCHANGED <<pc, locals, items>>
            ELSE LET u == update_quantity(items, locals.name, r.value)
                 IN  /\ locals' = Bind("quantity", r.value)
                     /\ pc' = "menu"
                     /\ items' = u.items
                     /\ out' = IF u.ret THEN "Quantity updated." ELSE "Item not found."
    /\ UNCHANGED <<discount_percent, tax_percent, receipt>>

\* choice "4"
ChooseRemove ==
    /\ ReadChoice(<<"4">>)
    /\ pc' = "rem_name"
    /\ out' = NoMsg
    /\ UNCHANGED <<items, discount_percent, tax_percent>>

RemoveName ==
    /\ pc = "rem_name"
    /\ \E raw \in NameInputs :
        LET nm == Strip(raw)
            u == remove_item(items, nm)
        IN  /\ locals' = Bind("name", nm)
            /\ items' = u.items
            /\ out' = IF u.ret THEN "Item removed." ELSE "Item not found."
    /\ pc' = "menu"
    /\ UNCHANGED <<discount_percent, tax_percent, receipt>>

\* choice "5"
ChooseDiscount ==
    /\ ReadChoice(<<"5">>)
    /\ pc' = "disc"
    /\ out' = NoMsg
    /\ UNCHANGED <<items, discount_percent, tax_percent>>

SetDiscount ==
    /\ pc = "disc"
    /\ \E raw \in PercentInputs :
        LET r == prompt_float(raw)
        IN  IF r.done
            THEN discount_percent' = r.value /\ pc' = "menu" /\ out' = "Discount updated."
            ELSE out' = r.msg /\ UNCHANGED <<pc, discount_percent>>
    /\ UNCHANGED <<locals, items, tax_percent, receipt>>

\* choice "6"
ChooseTax ==
    /\ ReadChoice(<<"6">>)
    /\ pc' = "tax"
    /\ out' = NoMsg
    /\ UNCHANGED <<items, discount_percent, tax_percent>>

SetTax ==
    /\ pc = "tax"
    /\ \E raw \in PercentInputs :
        LET r == prompt_float(raw)
        IN  IF r.done
            THEN tax_percent' = r.value /\ pc' = "menu" /\ out' = "Tax updated."
            ELSE out' = r.msg /\ UNCHANGED <<pc, tax_percent>>
    /\ UNCHANGED <<locals, items, discount_percent, receipt>>

\* The branch of choice "7" with the clear placed before the save.
CheckoutBranch_clear_first(c) ==
    IF c.items = <<>>
    THEN [saved |-> FALSE, file |-> NoFile, cart |-> c, msg |-> "Cart is empty."]
    ELSE [saved |-> TRUE, file |-> save_receipt(clear(c)), cart |-> clear(c),
          msg |-> "Receipt saved"]

\* The branch of choice "7" without the empty-cart check.
CheckoutBranch_no_empty_check(c) ==
    [saved |-> TRUE, file |-> save_receipt(c), cart |-> clear(c), msg |-> "Receipt saved"]

\* The branch of choice "7" on cart c when the file can be written: an empty
\* cart is refused; otherwise the receipt is saved from c and then c is cleared.
CheckoutBranch(c) ==
    IF c.items = <<>>
    THEN [saved |-> FALSE, file |-> NoFile, cart |-> c, msg |-> "Cart is empty."]
    ELSE [saved |-> TRUE, file |-> save_receipt(c), cart |-> clear(c),
          msg |-> "Receipt saved"]

\* choice "7"; ioOk is FALSE when mkdir/open/write raises, which nothing
\* catches: the session ends with the traceback, the cart not cleared.
Checkout ==
    /\ pc = "menu"
    /\ \E raw \in ChoiceInputs : Strip(raw) = <<"7">>
    /\ locals' = [choice |-> <<"7">>]
    /\ LET r == CheckoutBranch(cart)
       IN  \E ioOk \in BOOLEAN :
            IF r.saved /\ ~ioOk
            THEN /\ pc' = "crashed"
                 /\ out' = "Traceback"
                 /\ receipt' = NoFile
                 /\ UNCHANGED <<items, discount_percent, tax_percent>>
            ELSE /\ receipt' = r.file
                 /\ items' = r.cart.items
                 /\ discount_percent' = r.cart.discount_percent
                 /\ tax_percent' = r.cart.tax_percent
                 /\ out' = r.msg
                 /\ UNCHANGED pc

\* choice "8"
ClearCart ==
    /\ ReadChoice(<<"8">>)
    /\ LET c == clear(cart)
       IN  /\ items' = c.items
           /\ discount_percent' = c.discount_percent
           /\ tax_percent' = c.tax_percent
    /\ out' = "Cart cleared."
    /\ UNCHANGED pc

\* choice "0"
Exit ==
    /\ ReadChoice(<<"0">>)
    /\ pc' = "exited"
    /\ out' = "Goodbye!"
    /\ UNCHANGED <<items, discount_percent, tax_percent>>

MenuChoices ==
    { <<"0">>, <<"1">>, <<"2">>, <<"3">>, <<"4">>, <<"5">>, <<"6">>, <<"7">>, <<"8">> }

\* The else branch leaving the loop.
InvalidChoice_exits ==
    /\ \E c \in { Strip(raw) : raw \in ChoiceInputs } \ MenuChoices : ReadChoice(c)
    /\ out' = "Invalid choice."
    /\ pc' = "exited"
    /\ UNCHANGED <<items, discount_percent, tax_percent>>

\* The else branch falling through to the clear of choice "8".
InvalidChoice_clears ==
    /\ \E c \in { Strip(raw) : raw \in ChoiceInputs } \ MenuChoices : ReadChoice(c)
    /\ out' = "Invalid choice."
    /\ items' = <<>>
    /\ discount_percent' = Zero
    /\ tax_percent' = Zero
    /\ UNCHANGED pc

\* any other line
InvalidChoice ==
    /\ \E c \in { Strip(raw) : raw \in ChoiceInputs } \ MenuChoices : ReadChoice(c)
    /\ out' = "Invalid choice."
    /\ UNCHANGED <<pc, items, discount_percent, tax_percent>>

Next ==
    \/ ViewCart
    \/ ChooseAdd
    \/ AddName
    \/ AddPrice
    \/ AddQuantity
    \/ ChooseUpdate
    \/ UpdateName
    \/ UpdateQuantity
    \/ ChooseRemove
    \/ RemoveName
    \/ ChooseDiscount
    \/ SetDiscount
    \/ ChooseTax
    \/ SetTax
    \/ Checkout
    \/ ClearCart
    \/ Exit
    \/ InvalidChoice

Spec == Init /\ [][Next]_vars

\* ================================================================== claims
\* Quantity stored under key k (0 when k is absent).
QtyOf(its, k) == IF HasKey(its, k) THEN its[IndexOf(its, k)].quantity ELSE 0

\* The command being run, or last run, is c.
Chose(c) == "choice" \in DOMAIN locals /\ locals.choice = c

\* A command was read and run to completion by this step.
Ran(c) == pc = "menu" /\ locals'.choice = c

\* C1: in every reachable state every stored item has quantity > 0 and a
\* price that is >= 0.
C1_StoredItemsValid ==
    \A i \in 1..Len(items) : items[i].quantity > 0 /\ GeZero(items[i].price)

\* C2: a completed add of quantity q at price p under key k leaves k stored
\* with the quantity it had before (0 if absent) plus q, and with price p;
\* over a run of adds the quantity is the sum and the price the last one.
C2_AddSumsQuantityLastPrice ==
    [][(pc = "add_qty" /\ out' = "Item added.") =>
        LET k == NormKey(locals.name)
        IN  /\ HasKey(items', k)
            /\ QtyOf(items', k) = QtyOf(items, k) + locals'.quantity
            /\ items'[IndexOf(items', k)].price = locals.price]_vars

\* C2 witness: "C" at 3.50 x 2, then "c" at 4.00 x 1: quantity 3, price
\* 4.00, subtotal 12.00.
C2_Witness ==
    /\ pc = "menu" /\ out = "Item added."
    /\ locals.name = <<"c">> /\ locals.quantity = 1 /\ locals.price = Fin(4, 0)
    /\ Len(items) = 1
    /\ items[1].name = <<"C">> /\ items[1].quantity = 3 /\ items[1].price = Fin(4, 0)
    /\ subtotal(cart) = Fin(12, 0)

\* C3: a completed update of name to q reports "not found" and changes
\* nothing when the key is absent; when the key is present it reports success
\* and removes the item if q <= 0, or stores exactly q if q > 0.
C3_UpdateQuantity ==
    [][(pc = "upd_qty" /\ pc' = "menu") =>
        LET k == NormKey(locals.name)
            q == locals'.quantity
        IN  IF ~HasKey(items, k)
            THEN /\ out' = "Item not found."
                 /\ UNCHANGED <<items, discount_percent, tax_percent>>
            ELSE /\ out' = "Quantity updated."
                 /\ IF q <= 0 THEN ~HasKey(items', k)
                    ELSE HasKey(items', k) /\ QtyOf(items', k) = q]_vars

\* C3 witness: an update with q <= 0 has removed an item and reported success.
C3_Witness ==
    /\ pc = "menu" /\ out = "Quantity updated."
    /\ locals.quantity <= 0
    /\ ~HasKey(items, NormKey(locals.name))

\* C4: a completed remove reports success exactly when the normalized key
\* was present, the key is absent afterwards, and on an absent key the items
\* and both percentages are unchanged.
C4_RemoveItem ==
    [][(pc = "rem_name" /\ pc' = "menu") =>
        LET k == NormKey(locals'.name)
        IN  /\ (out' = "Item removed.") <=> HasKey(items, k)
            /\ ~HasKey(items', k)
            /\ ~HasKey(items, k) =>
                 /\ out' = "Item not found."
                 /\ UNCHANGED <<items, discount_percent, tax_percent>>]_vars

\* C4 witness: a remove of a name in other letter case has removed an item.
C4_Witness ==
    /\ pc = "menu" /\ out = "Item removed."
    /\ locals.name = <<"C">>
    /\ items # <<>>

\* The sum of unitPrice * quantity over the items.
RECURSIVE LineTotalSum(_)
LineTotalSum(its) ==
    IF its = <<>> THEN Zero
    ELSE AddF(LineTotalSum(SubSeq(its, 1, Len(its) - 1)),
              MulF(its[Len(its)].price, IntToFloat(its[Len(its)].quantity)))

\* C5: in every reachable state the derived amounts follow the formulas, and
\* on an empty cart all four are 0 whatever the percentages are.
C5_DerivedAmounts ==
    LET sub == subtotal(cart)
        disc == discount_amount(cart)
        tax == tax_amount(cart)
    IN  /\ sub = LineTotalSum(items)
        /\ disc = Div100(MulF(sub, discount_percent))
        /\ tax = Div100(MulF(SubF(sub, disc), tax_percent))
        /\ total_due(cart) = AddF(SubF(sub, disc), tax)
        /\ items = <<>> =>
             /\ sub = Zero
             /\ disc = Zero
             /\ tax = Zero
             /\ total_due(cart) = Zero

\* C6: a checkout of a non-empty cart whose export succeeds leaves the cart
\* with no items and both percentages 0, and the file it wrote holds one row
\* for each item the cart had before the clear.
C6_CheckoutSavesThenClears ==
    [][(Ran(<<"7">>) /\ items # <<>> /\ pc' = "menu") =>
        /\ items' = <<>>
        /\ discount_percent' = Zero
        /\ tax_percent' = Zero
        /\ receipt' # NoFile
        /\ Len(receipt') = Len(items) + 8
        /\ \A i \in 1..Len(items) :
             /\ receipt'[i + 1][1] = items[i].name
             /\ receipt'[i + 1][2] = items[i].quantity]_vars

\* C6 witness: a receipt with an item row was saved and the cart is reset.
C6_Witness ==
    /\ pc = "menu" /\ Chose(<<"7">>) /\ out = "Receipt saved"
    /\ Len(receipt) >= 9
    /\ items = <<>> /\ discount_percent = Zero /\ tax_percent = Zero

\* C7: a checkout of an empty cart writes no file, leaves the items and both
\* percentages as they were, and returns to the menu.
C7_CheckoutEmptyCart ==
    [][(Ran(<<"7">>) /\ items = <<>>) =>
        /\ receipt' = NoFile
        /\ out' = "Cart is empty."
        /\ pc' = "menu"
        /\ UNCHANGED <<items, discount_percent, tax_percent>>]_vars

\* C7 witness: checkout was refused on an empty cart whose discount and tax
\* are set.
C7_Witness ==
    /\ pc = "menu" /\ Chose(<<"7">>) /\ out = "Cart is empty."
    /\ items = <<>> /\ receipt = NoFile
    /\ discount_percent = Fin(10, 0) /\ tax_percent = Fin(10, 0)

\* C8: a written receipt is the header row, one row per item of the cart as
\* it was before the clear, in dict order, with name, quantity, price and
\* line total to 2 decimals, a blank row, and the six summary rows in order
\* with the amounts to 2 decimals and the percentages to 1.
C8_ReceiptLayout ==
    [][receipt' # NoFile =>
        LET n == Len(items)
            f == receipt'
        IN  /\ n >= 1
            /\ Len(f) = n + 8
            /\ f[1] = <<"Item", "Qty", "Price", "Total">>
            /\ \A i \in 1..n :
                 f[i + 1] = <<items[i].name, items[i].quantity,
                              FormatFixed(items[i].price, 2),
                              FormatFixed(MulF(items[i].price,
                                               IntToFloat(items[i].quantity)), 2)>>
            /\ f[n + 2] = <<>>
            /\ f[n + 3] = <<"Subtotal", FormatFixed(subtotal(cart), 2)>>
            /\ f[n + 4] = <<"Discount %", FormatFixed(discount_percent, 1)>>
            /\ f[n + 5] = <<"Discount Amount", FormatFixed(discount_amount(cart), 2)>>
            /\ f[n + 6] = <<"Tax %", FormatFixed(tax_percent, 1)>>
            /\ f[n + 7] = <<"Tax Amount", FormatFixed(tax_amount(cart), 2)>>
            /\ f[n + 8] = <<"Total Due", FormatFixed(total_due(cart), 2)>>]_vars

\* C8 witness: the receipt of "C" 4.00 x 3 added after "t" 3.50 x 2, with
\* discount 10 and tax 10: t first, then C, blank row, six summary rows.
C8_Witness ==
    receipt =
      << <<"Item", "Qty", "Price", "Total">>,
         << <<"t">>, 2, [txt |-> "dec", n |-> 350, d |-> 2],
                        [txt |-> "dec", n |-> 700, d |-> 2]>>,
         << <<"C">>, 3, [txt |-> "dec", n |-> 400, d |-> 2],
                        [txt |-> "dec", n |-> 1200, d |-> 2]>>,
         <<>>,
         <<"Subtotal", [txt |-> "dec", n |-> 1900, d |-> 2]>>,
         <<"Discount %", [txt |-> "dec", n |-> 100, d |-> 1]>>,
         <<"Discount Amount", [txt |-> "dec", n |-> 190, d |-> 2]>>,
         <<"Tax %", [txt |-> "dec", n |-> 100, d |-> 1]>>,
         <<"Tax Amount", [txt |-> "dec", n |-> 171, d |-> 2]>>,
         <<"Total Due", [txt |-> "dec", n |-> 1881, d |-> 2]>> >>

\* C9: the clear command leaves no items and both percentages 0 from any
\* cart, and clearing the cleared cart again gives the same cart.
C9_ClearResetsAndIsIdempotent ==
    [][Ran(<<"8">>) =>
        /\ items' = <<>>
        /\ discount_percent' = Zero
        /\ tax_percent' = Zero
        /\ clear(cart') = cart'
        /\ clear(clear(cart)) = clear(cart)]_vars

\* C9 witness: the clear command has run.
C9_Witness ==
    /\ pc = "menu" /\ Chose(<<"8">>) /\ out = "Cart cleared."
    /\ items = <<>> /\ discount_percent = Zero /\ tax_percent = Zero

\* C10: every item is stored under the trimmed, lowercased form of its
\* display name, and no two stored display names have the same such form.
C10_NormalizedKeys ==
    /\ \A i \in 1..Len(items) : items[i].key = Lower(Strip(items[i].name))
    /\ \A i, j \in 1..Len(items) :
         i # j => /\ items[i].key # items[j].key
                  /\ Lower(Strip(items[i].name)) # Lower(Strip(items[j].name))

\* C10 witness: "c" was added to a cart that held "C"; there is one entry.
C10_Witness ==
    /\ pc = "menu" /\ out = "Item added." /\ locals.name = <<"c">>
    /\ Len(items) = 1
    /\ items[1].name = <<"C">> /\ items[1].key = <<"c">>

\* C11: an add whose name is empty after trimming, or whose quantity is
\* <= 0, does not call add_item: the cart is unchanged, a warning is printed
\* and the loop is back at the menu.
C11_AddAborted ==
    [][/\ (pc = "add_name" /\ locals'.name = <<>>) =>
            /\ out' = "Item name is required."
            /\ pc' = "menu"
            /\ UNCHANGED <<items, discount_percent, tax_percent>>
       /\ (pc = "add_qty" /\ pc' = "menu" /\ locals'.quantity <= 0) =>
            /\ out' = "Quantity must be > 0."
            /\ UNCHANGED <<items, discount_percent, tax_percent>>]_vars

\* C11 witness: an add with quantity <= 0 was aborted on a non-empty cart.
C11_Witness ==
    /\ pc = "menu" /\ out = "Quantity must be > 0."
    /\ locals.quantity <= 0
    /\ items # <<>>

\* The positions at which run_cashier has ended.
Ended == {"exited", "crashed"}

C13_PercentagesNonNegative ==
    GeZero(discount_percent) /\ GeZero(tax_percent)

\* C14: a menu line that is none of the choices 0-8 leaves the items and
\* both percentages unchanged, prints the warning and is back at the menu.
C14_InvalidChoiceChangesNothing ==
    [][(pc = "menu" /\ locals'.choice \notin MenuChoices) =>
        /\ UNCHANGED <<items, discount_percent, tax_percent>>
        /\ pc' = "menu"
        /\ out' = "Invalid choice."
        /\ receipt' = NoFile]_vars

\* C14 witness: an invalid choice was answered on a cart with an item and a
\* discount.
C14_Witness ==
    /\ pc = "menu" /\ out = "Invalid choice."
    /\ locals.choice = <<"9">>
    /\ items # <<>> /\ discount_percent = Fin(10, 0)

\* C15: on every step a key that stays stored keeps its display name, and a
\* key that becomes stored does so in an add and carries the trimmed name of
\* that add, in the letter case typed.
C15_DisplayNamePreserved ==
    [][\A i \in 1..Len(items') :
        LET k == items'[i].key
        IN  IF HasKey(items, k)
            THEN items'[i].name = items[IndexOf(items, k)].name
            ELSE pc = "add_qty" /\ items'[i].name = Strip(locals.name)]_vars

\* C15 witness: "C" was stored, then updated under the name "c" to a positive
\* quantity; the display name is still "C".
C15_Witness ==
    /\ pc = "menu" /\ out = "Quantity updated."
    /\ locals.name = <<"c">> /\ locals.quantity > 0
    /\ \E i \in 1..Len(items) :
         /\ items[i].key = <<"c">>
         /\ items[i].name = <<"C">>
         /\ items[i].quantity = locals.quantity

\* The entries of its stored under keys other than k, in dict order.
RECURSIVE Others(_, _)
Others(its, k) ==
    IF its = <<>> THEN <<>>
    ELSE IF Head(its).key = k THEN Others(Tail(its), k)
    ELSE <<Head(its)>> \o Others(Tail(its), k)

\* C16: an add, update or remove on key k leaves the entries under other keys
\* and both percentages unchanged; an update to a positive quantity leaves
\* the price of k unchanged; setting the discount leaves the items and the
\* tax unchanged, and setting the tax leaves the items and the discount.
C16_MutationsTouchOnlyTheirTarget ==
    [][/\ (pc \in {"add_qty", "upd_qty"}) =>
            /\ Others(items', NormKey(locals.name)) = Others(items, NormKey(locals.name))
            /\ UNCHANGED <<discount_percent, tax_percent>>
       /\ (pc = "rem_name") =>
            /\ Others(items', NormKey(locals'.name)) = Others(items, NormKey(locals'.name))
            /\ UNCHANGED <<discount_percent, tax_percent>>
       /\ (pc = "upd_qty" /\ HasKey(items', NormKey(locals.name))) =>
            items'[IndexOf(items', NormKey(locals.name))].price
                = items[IndexOf(items, NormKey(locals.name))].price
       /\ (pc = "disc") => UNCHANGED <<items, tax_percent>>
       /\ (pc = "tax") => UNCHANGED <<items, discount_percent>>]_vars

\* C16 witness: the first of two items was removed from a cart with a
\* discount and a tax; the other item and both percentages are still there.
C16_Witness ==
    /\ pc = "menu" /\ out = "Item removed."
    /\ locals.name = <<"t">>
    /\ Len(items) = 1 /\ items[1].key = <<"c">>
    /\ discount_percent = Fin(10, 0) /\ tax_percent = Fin(10, 0)

\* C17: a remove, an update with quantity <= 0, a clear and a successful
\* checkout leave no entry under the key, and an add under a key with no
\* entry appends a fresh entry with exactly the quantity, the price and the
\* trimmed name of that add.
C17_NoResidueAfterRemoval ==
    [][/\ (pc = "rem_name" /\ pc' = "menu") => ~HasKey(items', NormKey(locals'.name))
       /\ (pc = "upd_qty" /\ pc' = "menu" /\ locals'.quantity <= 0) =>
            ~HasKey(items', NormKey(locals.name))
       /\ (Ran(<<"8">>) \/ (Ran(<<"7">>) /\ pc' = "menu")) => items' = <<>>
       /\ (pc = "add_qty" /\ out' = "Item added."
             /\ ~HasKey(items, NormKey(locals.name))) =>
            items' = Append(items, [key |-> Lower(Strip(locals.name)),
                                    name |-> Strip(locals.name),
                                    price |-> locals.price,
                                    quantity |-> locals'.quantity])]_vars

\* C17 witness: "c" was added as a fresh last entry, behind "t", with the
\* quantity and price of that add and the name as typed in that add.
C17_Witness ==
    /\ pc = "menu" /\ out = "Item added."
    /\ locals.name = <<"c">>
    /\ Len(items) = 2 /\ items[1].key = <<"t">>
    /\ items[2] = [key |-> <<"c">>, name |-> <<"c">>, price |-> locals.price,
                   quantity |-> locals.quantity]

====
